---- MODULE Spec2Model ----
(***************************************************************************)
(* HandyCodes (V8.py): a webcam frame loop classifies a hand's landmarks   *)
(* into a gesture label, debounces the label (hold time and cooldown) and  *)
(* on a fire appends a canned snippet to the program buffer and runs it.   *)
(*                                                                         *)
(* Time is counted in ticks of 0.05 s.  Python sequences are 0-based: the  *)
(* Python subscript landmarks[i][j] is landmarks[i+1][j+1] here.           *)
(***************************************************************************)
EXTENDS Integers, Sequences, FiniteSets, TLC

\* ------------------------------------------------------------------------
\* Bounds of the model
\* ------------------------------------------------------------------------
MaxCoord == 1    \* landmark coordinates range over 0..MaxCoord
MaxTime == 42    \* the clock stops at MaxTime ticks
FramePeriod == 7 \* ticks between two observations of the whole program
MaxDrift == 1    \* ticks that may pass between two clock reads of one call
MaxUpdates == 5  \* updates fed in a scenario
PausePeriod == 3 \* ticks between two observations of the loop with the pause button

\* ------------------------------------------------------------------------
\* Values
\* ------------------------------------------------------------------------
None == "None"                 \* Python's None
Exception == "<exception>"     \* an exception leaving a block
NoneCoord == -1                \* a coordinate that is not a number (None)
NoTime == -1                   \* gesture_start_time before any label was seen (None);
                               \* line 411 reads it only once line 409 has set it

gesture_code_mapping ==
  [open_palm      |-> "print(\"Hello World\")",
   thumbs_up      |-> "x = 10\nprint(\"Variable x set to\", x)",
   victory        |-> "x = 10\nif x > 5:\n    print(\"x is greater than 5\")",
   pointing_index |-> "for i in range(5):\n    print(\"Loop iteration\", i)",
   fist           |-> "print(\"Fist detected - Stopping execution\")",
   three_fingers  |-> "def greet(name):\n    print(f\"Hello, {name}!\")\n\ngreet(\"User\")"]

Labels == DOMAIN gesture_code_mapping

\* ------------------------------------------------------------------------
\* recognize_gesture (V8.py 332-401)
\* ------------------------------------------------------------------------
IsNum(v) == v # NoneCoord

\* sum() over a list of booleans
B2N(b) == IF b THEN 1 ELSE 0

\* the landmark indices whose [1] entry lines 341-352 read
ReadIdx == {4, 8, 12, 16, 20, 3, 2, 6, 10, 14, 18}

\* landmarks[i][1] raises IndexError when the entry has fewer than 2 items
ReadsRaise(landmarks) ==
  \E i \in ReadIdx : Len(landmarks) > i /\ Len(landmarks[i + 1]) < 2

\* "landmarks[i][1] if len(landmarks) > i else 0"
YOf(landmarks, i) == IF Len(landmarks) > i THEN landmarks[i + 1][2] ELSE 0

\* landmarks[i][0] is there and is a number: neither IndexError nor TypeError
HasX(landmarks, i) ==
  /\ Len(landmarks) > i
  /\ Len(landmarks[i + 1]) >= 1
  /\ IsNum(landmarks[i + 1][1])

\* a one-stage thumb rule, without the comparison against the MCP joint
thumb_extended_one_stage(landmarks) ==
  IF ~HasX(landmarks, 4) \/ ~HasX(landmarks, 3) THEN FALSE
  ELSE landmarks[5][1] > landmarks[4][1]

\* line 356 with its except branch (IndexError, TypeError) -> False:
\* "tip.x > ip.x if tip.x > mcp.x else False"
thumb_extended(landmarks) ==
  IF ~HasX(landmarks, 4) \/ ~HasX(landmarks, 2) THEN FALSE
  ELSE IF landmarks[5][1] > landmarks[3][1]
       THEN (IF ~HasX(landmarks, 3) THEN FALSE
             ELSE landmarks[5][1] > landmarks[4][1])
       ELSE FALSE

\* "tip < pip" with its except branch (IndexError, TypeError) -> False
finger_extended(tip, pip) ==
  IF ~IsNum(tip) \/ ~IsNum(pip) THEN FALSE ELSE tip < pip

\* extended_fingers: <<thumb, index, middle, ring, pinky>>
extended_fingers(landmarks) ==
  << thumb_extended(landmarks),
     finger_extended(YOf(landmarks, 8),  YOf(landmarks, 6)),
     finger_extended(YOf(landmarks, 12), YOf(landmarks, 10)),
     finger_extended(YOf(landmarks, 16), YOf(landmarks, 14)),
     finger_extended(YOf(landmarks, 20), YOf(landmarks, 18)) >>

num_extended(ext) ==
  B2N(ext[1]) + B2N(ext[2]) + B2N(ext[3]) + B2N(ext[4]) + B2N(ext[5])

\* the conditions of the six labelled rules, in the order of lines 384-394
rule_conditions(ext) ==
  LET n == num_extended(ext)
      thumb == ext[1]  index == ext[2]  middle == ext[3]
      ring == ext[4]   pinky == ext[5]
  IN  << n = 5,
         n = 0,
         n = 3,
         index /\ ~(middle \/ ring \/ pinky),
         index /\ middle /\ ~(ring \/ pinky),
         thumb /\ ~(index \/ middle \/ ring \/ pinky) >>

\* the labels the six rules return, in the same order
rule_labels ==
  << "open_palm", "fist", "three_fingers", "pointing_index", "victory",
     "thumbs_up" >>

\* a chain that tests the victory rule before the count of three
classify_victory_first(ext) ==
  LET n == num_extended(ext)
      thumb == ext[1]  index == ext[2]  middle == ext[3]
      ring == ext[4]   pinky == ext[5]
  IN  IF n = 5 THEN "open_palm"
      ELSE IF n = 0 THEN "fist"
      ELSE IF index /\ middle /\ ~(ring \/ pinky) THEN "victory"
      ELSE IF n = 3 THEN "three_fingers"
      ELSE IF index /\ ~(middle \/ ring \/ pinky) THEN "pointing_index"
      ELSE IF thumb /\ ~(index \/ middle \/ ring \/ pinky) THEN "thumbs_up"
      ELSE None

\* a chain whose pointing_index rule also asks for a folded thumb
classify_strict_pointing(ext) ==
  LET n == num_extended(ext)
      thumb == ext[1]  index == ext[2]  middle == ext[3]
      ring == ext[4]   pinky == ext[5]
  IN  IF n = 5 THEN "open_palm"
      ELSE IF n = 0 THEN "fist"
      ELSE IF n = 3 THEN "three_fingers"
      ELSE IF index /\ ~(thumb \/ middle \/ ring \/ pinky) THEN "pointing_index"
      ELSE IF index /\ middle /\ ~(ring \/ pinky) THEN "victory"
      ELSE IF thumb /\ ~(index \/ middle \/ ring \/ pinky) THEN "thumbs_up"
      ELSE None

\* the if/elif chain of lines 384-397
classify(ext) ==
  LET n == num_extended(ext)
      thumb == ext[1]  index == ext[2]  middle == ext[3]
      ring == ext[4]   pinky == ext[5]
  IN  IF n = 5 THEN "open_palm"
      ELSE IF n = 0 THEN "fist"
      ELSE IF n = 3 THEN "three_fingers"
      ELSE IF index /\ ~(middle \/ ring \/ pinky) THEN "pointing_index"
      ELSE IF index /\ middle /\ ~(ring \/ pinky) THEN "victory"
      ELSE IF thumb /\ ~(index \/ middle \/ ring \/ pinky) THEN "thumbs_up"
      ELSE None

\* the body of the outer try block: a label, None, or an exception
recognize_body(landmarks) ==
  IF Len(landmarks) < 21 THEN None
  ELSE IF ReadsRaise(landmarks) THEN Exception
  ELSE classify(extended_fingers(landmarks))

\* the function without its outer try/except: the exception propagates
recognize_gesture_no_except(landmarks) == recognize_body(landmarks)

\* the outer "except Exception" returns None
recognize_gesture(landmarks) ==
  LET r == recognize_body(landmarks)
  IN  IF r = Exception THEN None ELSE r

\* ------------------------------------------------------------------------
\* Landmark inputs
\* ------------------------------------------------------------------------
ThumbIdx == {2, 3, 4}
FingerIdx == {6, 8, 10, 12, 14, 16, 18, 20}

\* a well-formed hand of 21 (x, y) pairs; coordinates nobody reads are 0
Hand(tx, fy) ==
  [k \in 1..21 |-> << IF (k - 1) \in ThumbIdx THEN tx[k - 1] ELSE 0,
                      IF (k - 1) \in FingerIdx THEN fy[k - 1] ELSE 0 >>]

\* one hand for every combination of the five extended flags
FlagHand(e) ==
  Hand([k \in ThumbIdx |-> IF k = 4 /\ e[1] THEN 1 ELSE 0],
       [k \in FingerIdx |->
          IF k = 8 THEN B2N(~e[2]) ELSE IF k = 12 THEN B2N(~e[3])
          ELSE IF k = 16 THEN B2N(~e[4]) ELSE IF k = 20 THEN B2N(~e[5])
          ELSE 1])

FlagHands == { FlagHand(e) : e \in [1..5 -> BOOLEAN] }

\* malformed inputs: too few landmarks, a landmark with one item only,
\* a landmark whose coordinates are not numbers
ShortHands == { SubSeq(h, 1, n) : h \in FlagHands, n \in 0..20 }
CutHands == { [h EXCEPT ![k] = << h[k][1] >>] : h \in FlagHands, k \in 1..21 }
NoneXHands == { [h EXCEPT ![k] = << NoneCoord, h[k][2] >>] : h \in FlagHands, k \in 1..21 }
NoneYHands == { [h EXCEPT ![k] = << h[k][1], NoneCoord >>] : h \in FlagHands, k \in 1..21 }

MalformedLandmarks == ShortHands \cup CutHands \cup NoneXHands \cup NoneYHands

\* the hands the camera shows in the frame loop: a fist, an open palm, and
\* four fingers without the thumb (an ambiguous configuration)
SampleHands ==
  { FlagHand([i \in 1..5 |-> FALSE]),
    FlagHand([i \in 1..5 |-> TRUE]),
    FlagHand([i \in 1..5 |-> i # 1]) }

\* ------------------------------------------------------------------------
\* Program constants (times in ticks of 0.05 s)
\* ------------------------------------------------------------------------
gesture_cooldown == 20     \* 1.0 s
gesture_hold_time == 6     \* 0.3 s
max_num_hands == 2         \* mp.solutions.hands.Hands default

\* what exec() of a snippet prints when it completes
snippet_stdout ==
  [open_palm      |-> "Hello World\n",
   thumbs_up      |-> "Variable x set to 10\n",
   victory        |-> "x is greater than 5\n",
   pointing_index |-> "Loop iteration 0\nLoop iteration 1\nLoop iteration 2\nLoop iteration 3\nLoop iteration 4\n",
   fist           |-> "Fist detected - Stopping execution\n",
   three_fingers  |-> "Hello, User!\n"]

\* the messages of the exceptions exec() may raise
Messages == {"<message>"}

\* exec() is an external evaluator: it completes with the captured output,
\* or raises an Exception with a message
exec_outcomes(stdout) ==
  {[raised |-> FALSE, text |-> stdout]}
    \cup {[raised |-> TRUE, text |-> m] : m \in Messages}

\* the stream sys.stdout is bound to outside a redirection
original_stdout == "original_stdout"

\* ------------------------------------------------------------------------
\* State
\* ------------------------------------------------------------------------
VARIABLES
  clock,                  \* time.time(), in ticks
  pc,                     \* position of run(): "ui", "hand", "done"
  hands_left,             \* hands of the current frame not yet processed
  landmarks,              \* run()'s local: the landmarks of the last hand
  gesture,                \* run()'s local: the last classification
  running,                \* self.running
  camera_active,          \* self.camera_active
  cap_open,               \* self.cap.isOpened()
  last_detected_gesture,  \* self.last_detected_gesture
  gesture_start_time,     \* self.gesture_start_time
  last_executed_time,     \* self.last_executed_time
  displayed_gesture,      \* self.displayed_gesture
  generated_code,         \* self.generated_code, as the sequence of its pieces
  code_editor,            \* contents of the editor widget
  execution_output,       \* self.execution_output, as the sequence of its pieces
  output_console,         \* contents of the output console widget
  sys_stdout,             \* sys.stdout
  fires,                  \* history: the fires since the last clear_code
  played,                 \* history: the updates fed so far (SpecScenario)
  since_resume            \* history: the hands processed since the camera was
                          \* last resumed: "no_resume", "resumed", "first_hand",
                          \* "later_hands"

vars == << clock, pc, hands_left, landmarks, gesture, running, camera_active,
           cap_open, last_detected_gesture, gesture_start_time,
           last_executed_time, displayed_gesture, generated_code, code_editor,
           execution_output, output_console, sys_stdout, fires, played,
           since_resume >>

debounce_vars == << last_detected_gesture, gesture_start_time, last_executed_time >>
dispatch_vars == << displayed_gesture, generated_code, code_editor,
                    execution_output, output_console, sys_stdout, fires >>
loop_vars == << pc, hands_left, running, camera_active, cap_open >>
frame_vars == << landmarks, gesture, played, since_resume >>

\* the state after __init__ (V8.py 117-148), which reads the clock at 0
Constructed ==
  /\ hands_left = 0
  /\ landmarks = << >>
  /\ gesture = None
  /\ running = TRUE
  /\ camera_active = TRUE
  /\ cap_open = TRUE
  /\ last_detected_gesture = None
  /\ gesture_start_time = NoTime
  /\ last_executed_time = 0
  /\ displayed_gesture = ""
  /\ generated_code = << >>
  /\ code_editor = << >>
  /\ execution_output = << >>
  /\ output_console = << >>
  /\ sys_stdout = original_stdout
  /\ fires = << >>
  /\ played = << >>
  /\ since_resume = "no_resume"

\* __init__, then start_camera() of run() succeeded
Init ==
  /\ Constructed
  /\ clock = 0
  /\ pc = "ui"

\* ------------------------------------------------------------------------
\* process_gesture (V8.py 403-442)
\* ------------------------------------------------------------------------
\* update_code_display: the editor is rewritten when it differs
update_code_display(code) == code_editor' = code

\* a fire branch that leaves last_executed_time alone
Fire_keeps_last_time(g, current_time) ==
  /\ displayed_gesture' = g
  /\ IF g \in DOMAIN gesture_code_mapping
     THEN \E r \in exec_outcomes(snippet_stdout[g]) :
          LET code_to_execute == gesture_code_mapping[g]
              output == IF r.raised THEN "Error: " \o r.text ELSE r.text
          IN  /\ generated_code' = generated_code \o << code_to_execute, "\n" >>
              /\ update_code_display(generated_code')
              /\ sys_stdout' = original_stdout
              /\ execution_output' =
                   execution_output \o << ">>> ", g, ":\n", output, "\n" >>
              /\ output_console' = execution_output'
              /\ UNCHANGED last_executed_time
              /\ fires' = Append(fires, [label |-> g, time |-> current_time,
                                         raised |-> r.raised, text |-> r.text])
     ELSE UNCHANGED << generated_code, code_editor, execution_output,
                       output_console, sys_stdout, last_executed_time, fires >>

\* a fire branch that assigns the snippet to the buffer instead of appending
Fire_overwrite(g, current_time) ==
  /\ displayed_gesture' = g
  /\ IF g \in DOMAIN gesture_code_mapping
     THEN \E r \in exec_outcomes(snippet_stdout[g]) :
          LET code_to_execute == gesture_code_mapping[g]
              output == IF r.raised THEN "Error: " \o r.text ELSE r.text
          IN  /\ generated_code' = << code_to_execute, "\n" >>
              /\ update_code_display(generated_code')
              /\ sys_stdout' = original_stdout
              /\ execution_output' =
                   execution_output \o << ">>> ", g, ":\n", output, "\n" >>
              /\ output_console' = execution_output'
              /\ last_executed_time' = current_time
              /\ fires' = Append(fires, [label |-> g, time |-> current_time,
                                         raised |-> r.raised, text |-> r.text])
     ELSE UNCHANGED << generated_code, code_editor, execution_output,
                       output_console, sys_stdout, last_executed_time, fires >>

\* a fire branch whose exec() is not guarded: an exception leaves the branch
\* after line 429, through the finally clause, to the handler of line 441
Fire_no_except(g, current_time) ==
  /\ displayed_gesture' = g
  /\ IF g \in DOMAIN gesture_code_mapping
     THEN \E r \in exec_outcomes(snippet_stdout[g]) :
          LET code_to_execute == gesture_code_mapping[g]
              output == IF r.raised THEN "Error: " \o r.text ELSE r.text
          IN  /\ generated_code' = generated_code \o << code_to_execute, "\n" >>
              /\ update_code_display(generated_code')
              /\ sys_stdout' = original_stdout
              /\ IF r.raised
                 THEN UNCHANGED << execution_output, output_console,
                                   last_executed_time >>
                 ELSE /\ execution_output' =
                           execution_output \o << ">>> ", g, ":\n", output, "\n" >>
                      /\ output_console' = execution_output'
                      /\ last_executed_time' = current_time
              /\ fires' = Append(fires, [label |-> g, time |-> current_time,
                                         raised |-> r.raised, text |-> r.text])
     ELSE UNCHANGED << generated_code, code_editor, execution_output,
                       output_console, sys_stdout, last_executed_time, fires >>

\* the fire branch, lines 413-440: the snippet is appended to the buffer, exec()
\* runs with sys.stdout redirected, an Exception becomes the text
\* "Error: <message>", the finally clause restores sys.stdout, and the entry
\* is appended to the transcript
Fire(g, current_time) ==
  /\ displayed_gesture' = g
  /\ IF g \in DOMAIN gesture_code_mapping
     THEN \E r \in exec_outcomes(snippet_stdout[g]) :
          LET code_to_execute == gesture_code_mapping[g]
              output == IF r.raised THEN "Error: " \o r.text ELSE r.text
          IN  /\ generated_code' = generated_code \o << code_to_execute, "\n" >>
              /\ update_code_display(generated_code')
              /\ sys_stdout' = original_stdout
              /\ execution_output' =
                   execution_output \o << ">>> ", g, ":\n", output, "\n" >>
              /\ output_console' = execution_output'
              /\ last_executed_time' = current_time
              /\ fires' = Append(fires, [label |-> g, time |-> current_time,
                                         raised |-> r.raised, text |-> r.text])
     ELSE UNCHANGED << generated_code, code_editor, execution_output,
                       output_console, sys_stdout, last_executed_time, fires >>

\* either guard alone lets the gesture fire
process_gesture_either_guard(g, current_time, now) ==
  IF g # last_detected_gesture
  THEN /\ gesture_start_time' = now
       /\ last_detected_gesture' = g
       /\ UNCHANGED << last_executed_time, dispatch_vars >>
  ELSE IF \/ now - gesture_start_time >= gesture_hold_time
          \/ current_time - last_executed_time > gesture_cooldown
  THEN /\ Fire(g, current_time)
       /\ UNCHANGED << last_detected_gesture, gesture_start_time >>
  ELSE UNCHANGED << debounce_vars, dispatch_vars >>

\* a changed label keeps the old start time
process_gesture_keeps_start(g, current_time, now) ==
  IF g # last_detected_gesture
  THEN /\ gesture_start_time' =
            (IF last_detected_gesture = None THEN now ELSE gesture_start_time)
       /\ last_detected_gesture' = g
       /\ UNCHANGED << last_executed_time, dispatch_vars >>
  ELSE IF now - gesture_start_time >= gesture_hold_time
  THEN IF current_time - last_executed_time > gesture_cooldown
       THEN /\ Fire(g, current_time)
            /\ UNCHANGED << last_detected_gesture, gesture_start_time >>
       ELSE UNCHANGED << debounce_vars, dispatch_vars >>
  ELSE UNCHANGED << debounce_vars, dispatch_vars >>

\* the hold test is strict
process_gesture_strict_hold(g, current_time, now) ==
  IF g # last_detected_gesture
  THEN /\ gesture_start_time' = now
       /\ last_detected_gesture' = g
       /\ UNCHANGED << last_executed_time, dispatch_vars >>
  ELSE IF now - gesture_start_time > gesture_hold_time
  THEN IF current_time - last_executed_time > gesture_cooldown
       THEN /\ Fire(g, current_time)
            /\ UNCHANGED << last_detected_gesture, gesture_start_time >>
       ELSE UNCHANGED << debounce_vars, dispatch_vars >>
  ELSE UNCHANGED << debounce_vars, dispatch_vars >>

\* current_time is the clock read of line 406, now the one of line 409 or 411
process_gesture(g, current_time, now) ==
  IF g # last_detected_gesture
  THEN /\ gesture_start_time' = now
       /\ last_detected_gesture' = g
       /\ UNCHANGED << last_executed_time, dispatch_vars >>
  ELSE IF now - gesture_start_time >= gesture_hold_time
  THEN IF current_time - last_executed_time > gesture_cooldown
       THEN /\ Fire(g, current_time)
            /\ UNCHANGED << last_detected_gesture, gesture_start_time >>
       ELSE UNCHANGED << debounce_vars, dispatch_vars >>
  ELSE UNCHANGED << debounce_vars, dispatch_vars >>

\* ------------------------------------------------------------------------
\* UI callbacks, dispatched by root.update() inside update_ui
\* ------------------------------------------------------------------------
InUI == pc = "ui" /\ running

\* a toggle that forgets the label held so far
toggle_camera_resets_hold ==
  /\ InUI
  /\ camera_active' = ~camera_active
  /\ since_resume' = (IF camera_active' THEN "resumed" ELSE "no_resume")
  /\ last_detected_gesture' = None
  /\ UNCHANGED << clock, pc, hands_left, running, cap_open, landmarks, gesture,
                  played, gesture_start_time, last_executed_time,
                  dispatch_vars >>

toggle_camera ==
  /\ InUI
  /\ camera_active' = ~camera_active
  /\ since_resume' = (IF camera_active' THEN "resumed" ELSE "no_resume")
  /\ UNCHANGED << clock, pc, hands_left, running, cap_open, landmarks, gesture,
                  played, debounce_vars, dispatch_vars >>

clear_code ==
  /\ InUI
  /\ code_editor' = << >>
  /\ generated_code' = << >>
  /\ fires' = << >>
  /\ UNCHANGED << clock, loop_vars, frame_vars, debounce_vars,
                  displayed_gesture, execution_output, output_console,
                  sys_stdout >>

\* what exec() of the editor's text prints when it completes: the output of
\* its snippets, in order
run_output(code) ==
  LET snips == SelectSeq(code, LAMBDA p : p # "\n")
  IN  [i \in 1..Len(snips) |->
         snippet_stdout[CHOOSE l \in Labels : gesture_code_mapping[l] = snips[i]]]

run_code ==
  /\ InUI
  /\ \E raised \in BOOLEAN, m \in Messages :
       execution_output' =
         (IF raised THEN << "Error: " \o m >> ELSE run_output(code_editor))
  /\ sys_stdout' = original_stdout
  /\ output_console' = execution_output'
  /\ UNCHANGED << clock, loop_vars, frame_vars, debounce_vars,
                  displayed_gesture, generated_code, code_editor, fires >>

save_code ==
  /\ InUI
  /\ output_console' = << "Code saved to file" >>
  /\ UNCHANGED << clock, loop_vars, frame_vars, debounce_vars,
                  displayed_gesture, generated_code, code_editor,
                  execution_output, sys_stdout, fires >>

\* change_camera releases the capture and start_camera() opens one, or fails
change_camera ==
  /\ InUI
  /\ \E ok \in BOOLEAN : cap_open' = ok
  /\ UNCHANGED << clock, pc, hands_left, running, camera_active, frame_vars,
                  debounce_vars, dispatch_vars >>

on_closing ==
  /\ InUI
  /\ running' = FALSE
  /\ cap_open' = FALSE
  /\ UNCHANGED << clock, pc, hands_left, camera_active, frame_vars,
                  debounce_vars, dispatch_vars >>

\* ------------------------------------------------------------------------
\* run (V8.py 483-564)
\* ------------------------------------------------------------------------
\* update_ui returned False: break, then the clean-up of lines 562-564
LoopBreak ==
  /\ pc = "ui" /\ ~running
  /\ pc' = "done"
  /\ cap_open' = FALSE
  /\ UNCHANGED << clock, hands_left, running, camera_active, frame_vars,
                  debounce_vars, dispatch_vars >>

\* camera paused: sleep and continue
LoopPaused ==
  /\ InUI /\ ~camera_active
  /\ UNCHANGED vars

\* the end of an iteration: overlay, imshow, waitKey; 'q' leaves the loop
EndOfIteration(q) ==
  IF q THEN running' = FALSE /\ pc' = "done" /\ cap_open' = FALSE
       ELSE pc' = "ui" /\ UNCHANGED << running, cap_open >>

\* a frame read that does not depend on the running flag
ReadFrame_unchecked ==
  /\ pc = "ui" /\ camera_active
  /\ \/ UNCHANGED << pc, hands_left, running, cap_open >>
     \/ \E n \in 1..max_num_hands :
          hands_left' = n /\ pc' = "hand" /\ UNCHANGED << running, cap_open >>
     \/ /\ hands_left' = 0
        /\ \E q \in BOOLEAN : EndOfIteration(q)
  /\ UNCHANGED << clock, camera_active, frame_vars, debounce_vars, dispatch_vars >>

\* cap.read() and hands.process(): a failed read, or a frame with n hands
ReadFrame ==
  /\ InUI /\ camera_active
  /\ \/ UNCHANGED << pc, hands_left, running, cap_open >>
     \/ /\ cap_open
        /\ \E n \in 1..max_num_hands :
             hands_left' = n /\ pc' = "hand" /\ UNCHANGED << running, cap_open >>
     \/ /\ cap_open
        /\ hands_left' = 0
        /\ \E q \in BOOLEAN : EndOfIteration(q)
  /\ UNCHANGED << clock, camera_active, frame_vars, debounce_vars, dispatch_vars >>

\* a None classification is taken for the label held so far
HandBody_sticky(h, current_time, now) ==
  /\ landmarks' = h
  /\ gesture' = recognize_gesture(h)
  /\ IF gesture' # None
     THEN process_gesture(gesture', current_time, now)
     ELSE IF last_detected_gesture # None
     THEN process_gesture(last_detected_gesture, current_time, now)
     ELSE UNCHANGED << debounce_vars, dispatch_vars >>

\* the body of "for hand_landmarks in results.multi_hand_landmarks",
\* lines 520-524: classify, and process the gesture when there is one
HandBody(h, current_time, now) ==
  /\ landmarks' = h
  /\ gesture' = recognize_gesture(h)
  /\ IF gesture' # None
     THEN process_gesture(gesture', current_time, now)
     ELSE UNCHANGED << debounce_vars, dispatch_vars >>

\* one pass of the loop over the hands; the clock reads of process_gesture
\* are up to drift ticks apart
HandPass(drift) ==
  /\ pc = "hand"
  /\ \E h \in SampleHands :
       \E d \in (IF recognize_gesture(h) # None THEN 0..drift ELSE {0}) :
         /\ clock + d <= MaxTime
         /\ HandBody(h, clock, clock + d)
         /\ clock' = clock + d
  /\ hands_left' = hands_left - 1
  /\ IF hands_left' = 0 THEN \E q \in BOOLEAN : EndOfIteration(q)
                        ELSE UNCHANGED << pc, running, cap_open >>
  /\ since_resume' = (CASE since_resume = "resumed" -> "first_hand"
                        [] since_resume = "first_hand" -> "later_hands"
                        [] OTHER -> since_resume)
  /\ UNCHANGED << camera_active, played >>

\* time passes (blocking reads, sleeps, slow calls)
Pass(ticks) ==
  /\ pc \in {"ui", "hand"}
  /\ clock + ticks <= MaxTime
  /\ clock' = clock + ticks
  /\ UNCHANGED << loop_vars, frame_vars, debounce_vars, dispatch_vars >>

\* ------------------------------------------------------------------------
\* The whole program, observed once per FramePeriod, its calls taking no time
\* ------------------------------------------------------------------------
Wait == Pass(FramePeriod)

HandStep == HandPass(0)

Next ==
  \/ Wait
  \/ toggle_camera
  \/ clear_code
  \/ run_code
  \/ save_code
  \/ change_camera
  \/ on_closing
  \/ LoopBreak
  \/ LoopPaused
  \/ ReadFrame
  \/ HandStep

Spec == Init /\ [][Next]_vars

\* run() is sequential code: once update_ui has returned False the break and
\* the clean-up follow (every LoopBreak step changes pc)
SpecLive == Spec /\ WF_pc(LoopBreak)

\* ------------------------------------------------------------------------
\* The frame loop alone, tick by tick
\* ------------------------------------------------------------------------
Tick == Pass(1)

HandStepDrift == HandPass(MaxDrift)

NextTiming ==
  \/ Tick
  \/ ReadFrame
  \/ HandStepDrift

SpecTiming == Init /\ [][NextTiming]_vars

\* ------------------------------------------------------------------------
\* The frame loop with the pause button, observed once per PausePeriod
\* ------------------------------------------------------------------------
PauseWait == Pass(PausePeriod)

NextPause ==
  \/ PauseWait
  \/ toggle_camera
  \/ LoopPaused
  \/ ReadFrame
  \/ HandStep

SpecPause == Init /\ [][NextPause]_vars

\* ------------------------------------------------------------------------
\* The loop body fed a sequence of (hand, timestamp) updates
\* ------------------------------------------------------------------------
\* the first frame arrives StartTimes ticks after __init__ read the clock
StartTimes == {0, 14}

\* ticks between two updates
Gaps == {2, 5, 10, 11}

InitScenario ==
  /\ Constructed
  /\ clock \in StartTimes
  /\ pc = "feed"

\* one frame with one hand at the given time
Feed(h, at) ==
  /\ clock' = at
  /\ HandBody(h, at, at)
  /\ played' = Append(played, [label |-> gesture', at |-> at,
                               fired |-> Len(fires') > Len(fires)])
  /\ UNCHANGED << loop_vars, since_resume >>

Play ==
  /\ pc = "feed"
  /\ Len(played) < MaxUpdates
  /\ \E h \in SampleHands, gap \in (IF played = << >> THEN {0} ELSE Gaps) :
       /\ clock + gap <= MaxTime
       /\ Feed(h, clock + gap)

NextScenario == Play

SpecScenario == InitScenario /\ [][NextScenario]_vars

\* ------------------------------------------------------------------------
\* recognize_gesture alone, on every landmark input
\* ------------------------------------------------------------------------
\* every well-formed hand over the coordinates 0..MaxCoord, and the
\* malformed inputs
InitClassify ==
  /\ \/ \E tx \in [ThumbIdx -> 0..MaxCoord], fy \in [FingerIdx -> 0..MaxCoord] :
          landmarks = Hand(tx, fy)
     \/ landmarks \in MalformedLandmarks
  /\ pc = "classify"
  /\ clock = 0
  /\ hands_left = 0
  /\ gesture = None
  /\ running = TRUE
  /\ camera_active = TRUE
  /\ cap_open = TRUE
  /\ last_detected_gesture = None
  /\ gesture_start_time = NoTime
  /\ last_executed_time = 0
  /\ displayed_gesture = ""
  /\ generated_code = << >>
  /\ code_editor = << >>
  /\ execution_output = << >>
  /\ output_console = << >>
  /\ sys_stdout = original_stdout
  /\ fires = << >>
  /\ played = << >>
  /\ since_resume = "no_resume"

Recognize ==
  /\ pc = "classify"
  /\ gesture' = recognize_gesture(landmarks)
  /\ pc' = "classified"
  /\ UNCHANGED << clock, hands_left, landmarks, played, since_resume, running,
                  camera_active, cap_open, debounce_vars, dispatch_vars >>

NextClassify == Recognize

SpecClassify == InitClassify /\ [][NextClassify]_vars

\* ------------------------------------------------------------------------
\* Properties of the debouncer (process_gesture)
\* ------------------------------------------------------------------------
\* this step is a fire
Fired == Len(fires') = Len(fires) + 1

\* C1: a step fires only if, at that call, the label is the held one, the
\* hold time has passed since gesture_start_time (clock read of line 411)
\* and more than the cooldown has passed since last_executed_time (clock
\* read of line 406); the fire leaves gesture_start_time alone.
C1_FireNeedsHoldAndCooldown ==
  [][ Fired =>
        /\ gesture' \in Labels
        /\ gesture' = last_detected_gesture
        /\ clock' - gesture_start_time >= gesture_hold_time
        /\ clock - last_executed_time > gesture_cooldown
        /\ UNCHANGED << last_detected_gesture, gesture_start_time >> ]_vars

\* C1 witness: a first fire at the earliest time both guards allow: the
\* label held for exactly the hold time, one tick after the cooldown.
C1_Witness ==
  /\ Len(fires) = 1
  /\ fires[1].label = last_detected_gesture
  /\ fires[1].time = gesture_cooldown + 1
  /\ fires[1].time - gesture_start_time = gesture_hold_time

\* C2: any two consecutive fires are more than the cooldown apart, and
\* last_executed_time is the time of the latest fire.
C2_FiresMoreThanCooldownApart ==
  /\ \A i \in 1..(Len(fires) - 1) :
       fires[i + 1].time - fires[i].time > gesture_cooldown
  /\ fires # << >> => last_executed_time = fires[Len(fires)].time

\* C2 witness: two fires, the second as early as the cooldown allows.
C2_Witness ==
  /\ Len(fires) = 2
  /\ fires[2].time - fires[1].time = gesture_cooldown + 1

\* ------------------------------------------------------------------------
\* Properties of fed scenarios
\* ------------------------------------------------------------------------
\* this step feeds an update
Fed == Len(played') = Len(played) + 1

\* updates k..i all carry the label of update i, which is a label
Run(k, i) ==
  /\ played[i].label \in Labels
  /\ \A m \in k..i : played[m].label = played[i].label

\* the first update of the longest run of one label that ends at update i
RunStart(i) == CHOOSE k \in 1..i : Run(k, i) /\ (k = 1 \/ ~Run(k - 1, i))

\* the latest update before i that carried another label
OtherBefore(i) ==
  { j \in 1..(i - 1) :
      played[j].label \in Labels /\ played[j].label # played[i].label }

\* the first update after every other label that carries the label of i
BackAt(i) ==
  CHOOSE k \in 1..i :
    /\ played[k].label = played[i].label
    /\ \A j \in OtherBefore(i) : j < k
    /\ \A m \in 1..(k - 1) :
         played[m].label = played[i].label => \E j \in OtherBefore(i) : m < j

\* C3: an update whose label differs from last_detected_gesture stores the
\* label, sets gesture_start_time to the time of the update and does not
\* fire; so a fire of a label comes at least the hold time after the first
\* update of that label that followed the latest update of another label.
C3_ChangedLabelRestartsHold ==
  /\ [][ (Fed /\ gesture' \in Labels /\ gesture' # last_detected_gesture) =>
           /\ last_detected_gesture' = gesture'
           /\ gesture_start_time' = clock'
           /\ ~Fired
           /\ UNCHANGED << last_executed_time, generated_code, execution_output >>
     ]_vars
  /\ [](\A i \in 1..Len(played) :
          played[i].fired =>
            played[i].at - played[BackAt(i)].at >= gesture_hold_time)

\* C3 witness: label A, then B before A's hold time is over, then A again
\* and once more A: at the fourth update the cooldown is over and the hold
\* time has passed since the first A, but not since the switch back, and
\* the update has not fired.
C3_Witness ==
  /\ Len(played) >= 4
  /\ played[1].label \in Labels /\ played[2].label \in Labels
  /\ played[2].label # played[1].label
  /\ played[3].label = played[1].label /\ played[4].label = played[1].label
  /\ played[2].at - played[1].at < gesture_hold_time
  /\ played[4].at - played[1].at >= gesture_hold_time
  /\ played[4].at - played[3].at < gesture_hold_time
  /\ played[4].at > gesture_cooldown
  /\ \A i \in 1..4 : ~played[i].fired

\* the update at which the label of update i was last seen to change, a None
\* classification counting as a label of its own
ChangeBefore(i) ==
  CHOOSE k \in 1..i :
    /\ \A m \in k..i : played[m].label = played[i].label
    /\ (k = 1 \/ played[k - 1].label # played[i].label)

\* C4 as stated: a None classification restarts the hold time, so every
\* fire comes at least the hold time after the latest change of the
\* classification, None included.
C4_NoneRestartsHold ==
  \A i \in 1..Len(played) :
    played[i].fired =>
      played[i].at - played[ChangeBefore(i)].at >= gesture_hold_time

\* the time of the latest fire before update i, or of __init__ if none
LastFireBefore(i) ==
  LET F == { j \in 1..(i - 1) : played[j].fired }
  IN  IF F = {} THEN 0 ELSE played[CHOOSE j \in F : \A m \in F : m <= j].at

\* C5 as stated: with no fire so far, an update fires as soon as its label
\* has been held for the hold time.
C5_FreshSessionFiresAtHold ==
  \A i \in 1..Len(played) :
    ( /\ played[i].label \in Labels
      /\ \A j \in 1..(i - 1) : ~played[j].fired
      /\ played[i].at - played[RunStart(i)].at >= gesture_hold_time )
    => played[i].fired

\* C5 amended: an update fires if its label has been held for the hold time
\* and more than the cooldown has passed since the latest fire or, before
\* the first fire, since __init__ read the clock.
C5_FiresAtHoldAfterCooldown ==
  \A i \in 1..Len(played) :
    ( /\ played[i].label \in Labels
      /\ played[i].at - played[RunStart(i)].at >= gesture_hold_time
      /\ played[i].at - LastFireBefore(i) > gesture_cooldown )
    => played[i].fired

\* C5 witness: the app constructed 0.7 s before the first frame; fist fed at
\* 0.0, 0.1, 0.35, 0.9 and 1.4 s (ticks 14, 16, 21, 32, 42) has fired at
\* 0.35 s and at 1.4 s only.
C5_Witness ==
  /\ Len(played) = 5
  /\ \A i \in 1..5 : played[i].label = "fist"
  /\ [i \in 1..5 |-> played[i].at] = << 14, 16, 21, 32, 42 >>
  /\ [i \in 1..5 |-> played[i].fired] = << FALSE, FALSE, TRUE, FALSE, TRUE >>

\* ------------------------------------------------------------------------
\* Properties of the dispatcher
\* ------------------------------------------------------------------------
\* C6: every fire is for the label just classified, one of the six labels;
\* a pass over a hand classified as None, and a frame read (which processes
\* no hand itself), leave the buffer, the transcript and last_executed_time
\* as they are.
C6_NoneNeverFires ==
  [][ /\ Fired =>
           /\ fires'[Len(fires')].label \in Labels
           /\ fires'[Len(fires')].label = gesture'
      /\ (HandStep /\ gesture' = None) =>
           ~Fired /\ UNCHANGED << generated_code, execution_output,
                                  last_executed_time >>
      /\ ReadFrame =>
           ~Fired /\ UNCHANGED << generated_code, execution_output,
                                  last_executed_time >>
    ]_vars

\* C6 witness: a hand has just been classified as None while a label was
\* held for the hold time and the cooldown was over, with a snippet already
\* in the buffer.
C6_Witness ==
  /\ gesture = None
  /\ Len(landmarks) = 21
  /\ last_detected_gesture \in Labels
  /\ generated_code # << >>
  /\ clock - gesture_start_time >= gesture_hold_time
  /\ clock - last_executed_time > gesture_cooldown

\* snippet(label) and "\n" for every fire, in fire order
BufferOf(fs) ==
  [i \in 1..(2 * Len(fs)) |->
     IF i % 2 = 1 THEN gesture_code_mapping[fs[(i + 1) \div 2].label] ELSE "\n"]

IsPrefix(a, b) == Len(a) <= Len(b) /\ SubSeq(b, 1, Len(a)) = a

\* C10: after every step the buffer is the concatenation of snippet + "\n"
\* of the fires since the latest clear_code; only clear_code shortens it,
\* every other step keeps it or appends to it.
C10_BufferIsFiresSinceClear ==
  [][ /\ generated_code' = BufferOf(fires')
      /\ Len(generated_code') < Len(generated_code) => clear_code
      /\ ~clear_code => IsPrefix(generated_code, generated_code')
    ]_vars

\* C10 witness: a fire, a clear, and a second fire: the transcript holds two
\* entries and the buffer the second snippet alone.
C10_Witness ==
  /\ Len(fires) = 1
  /\ Len(execution_output) = 10
  /\ generated_code = << gesture_code_mapping[fires[1].label], "\n" >>

\* ------------------------------------------------------------------------
\* Properties of recognize_gesture
\* ------------------------------------------------------------------------
Fingers == {"thumb", "index", "middle", "ring", "pinky"}

\* 21 landmarks, each a pair of numbers
WellFormed(l) ==
  /\ Len(l) = 21
  /\ \A k \in 1..21 : Len(l[k]) = 2 /\ IsNum(l[k][1]) /\ IsNum(l[k][2])

\* the reference flags: thumb by tip.x against ip.x and mcp.x, the other
\* fingers by tip.y against pip.y
RefExtended(l) ==
  { f \in Fingers :
      \/ f = "thumb"  /\ l[5][1] > l[4][1] /\ l[5][1] > l[3][1]
      \/ f = "index"  /\ l[9][2] < l[7][2]
      \/ f = "middle" /\ l[13][2] < l[11][2]
      \/ f = "ring"   /\ l[17][2] < l[15][2]
      \/ f = "pinky"  /\ l[21][2] < l[19][2] }

\* the reference first-match decision list over the set of extended fingers
RefLabel(E) ==
  CASE Cardinality(E) = 5 -> "open_palm"
    [] Cardinality(E) = 0 -> "fist"
    [] Cardinality(E) = 3 -> "three_fingers"
    [] Cardinality(E) \notin {0, 3, 5} /\ E \in {{"index"}, {"index", "thumb"}}
         -> "pointing_index"
    [] Cardinality(E) \notin {0, 3, 5} /\ E = {"index", "middle"} -> "victory"
    [] Cardinality(E) \notin {0, 3, 5} /\ E = {"thumb"} -> "thumbs_up"
    [] OTHER -> None

Classified == pc = "classified"

\* C7: recognize_gesture returns one of the six labels or None for every
\* landmark sequence, never lets an exception out, and returns None for
\* every sequence of fewer than 21 landmarks.
C7_TotalFailSoft ==
  Classified =>
    /\ gesture \in Labels \cup {None}
    /\ gesture # Exception
    /\ (Len(landmarks) < 21 => gesture = None)

\* C7 witness: a sequence of 21 landmarks, one of them with a single item
\* (the subscript raises inside the function), has been classified as None.
C7_Witness ==
  /\ Classified
  /\ Len(landmarks) = 21
  /\ ReadsRaise(landmarks)
  /\ gesture = None

\* C8: for every input of 21 numeric points the result is the label of the
\* reference decision list over the five flags, and the count of extended
\* fingers lies in 0..5.
C8_MatchesReference ==
  (Classified /\ WellFormed(landmarks)) =>
    /\ gesture = RefLabel(RefExtended(landmarks))
    /\ num_extended(extended_fingers(landmarks)) \in 0..5
    /\ num_extended(extended_fingers(landmarks)) = Cardinality(RefExtended(landmarks))

\* C8 witness: a hand whose thumb tip is beyond the IP joint but not beyond
\* the MCP joint, all other fingers folded, has been classified as a fist.
C8_Witness ==
  /\ Classified /\ WellFormed(landmarks)
  /\ landmarks[5][1] > landmarks[4][1]
  /\ ~(landmarks[5][1] > landmarks[3][1])
  /\ gesture = "fist"

ExtSet(l) ==
  LET ext == extended_fingers(l)
  IN  { f \in Fingers :
          \/ f = "thumb"  /\ ext[1]
          \/ f = "index"  /\ ext[2]
          \/ f = "middle" /\ ext[3]
          \/ f = "ring"   /\ ext[4]
          \/ f = "pinky"  /\ ext[5] }

\* C9 as stated: thumb and index alone give None, and so do any four fingers.
C9_AmbiguousAreNone ==
  (Classified /\ WellFormed(landmarks)) =>
    /\ (ExtSet(landmarks) = {"thumb", "index"} => gesture = None)
    /\ (Cardinality(ExtSet(landmarks)) = 4 => gesture = None)

\* C9 amended: any four extended fingers give None; thumb and index alone
\* match the pointing_index rule and give pointing_index.
C9_FourNoneThumbIndexPointing ==
  (Classified /\ WellFormed(landmarks)) =>
    /\ (ExtSet(landmarks) = {"thumb", "index"} => gesture = "pointing_index")
    /\ (Cardinality(ExtSet(landmarks)) = 4 => gesture = None)

\* C9 witness: a hand with exactly thumb and index extended has been classified.
C9_Witness ==
  /\ Classified /\ WellFormed(landmarks)
  /\ ExtSet(landmarks) = {"thumb", "index"}
  /\ gesture = "pointing_index"

\* ------------------------------------------------------------------------
\* Properties of a fire whose evaluation fails (process_gesture, 416-442)
\* ------------------------------------------------------------------------
\* this step is a fire whose exec() raised
RaisedFire == Fired /\ fires'[Len(fires')].raised

\* C11: a fire whose evaluation raises completes as a successful one does: the
\* snippet is appended to the buffer, the transcript gains the entry of the
\* label with the text "Error: <message>" in the place of the output,
\* last_executed_time becomes the time of the call, sys.stdout is the original
\* stream again, and the loop goes on (it is left only by the q key, which
\* clears the running flag); sys.stdout is the original stream between steps
C11_EvalFailureIsErrorText ==
  /\ [][RaisedFire =>
          LET f == fires'[Len(fires')]
          IN  /\ generated_code' =
                   generated_code \o << gesture_code_mapping[f.label], "\n" >>
              /\ code_editor' = generated_code'
              /\ execution_output' =
                   execution_output
                     \o << ">>> ", f.label, ":\n", "Error: " \o f.text, "\n" >>
              /\ output_console' = execution_output'
              /\ displayed_gesture' = f.label
              /\ last_executed_time' = f.time
              /\ sys_stdout' = original_stdout
              /\ \/ pc' \in {"ui", "hand"} /\ running'
                 \/ pc' = "done" /\ ~running']_vars
  /\ [](sys_stdout = original_stdout)

\* a fire raised, the loop went on and a later fire completed
C11_Witness ==
  /\ Len(fires) = 2
  /\ fires[1].raised
  /\ ~fires[2].raised
  /\ fires[1].text \in Messages
  /\ pc = "ui"
  /\ running
  /\ last_executed_time = fires[2].time

\* ------------------------------------------------------------------------
\* Properties of cancellation (on_closing, update_ui, run)
\* ------------------------------------------------------------------------
\* on_closing has run and the loop has not yet tested the flag
Closing == pc = "ui" /\ ~running

\* C12: the step that clears the running flag inside update_ui also releases
\* the camera; from then on no frame is read, no hand is processed, no UI
\* callback runs and no gesture fires (only the break of the loop can happen),
\* the debouncer, the buffer and the transcript stay as they are, and the
\* loop terminates
C12_ClosingStopsLoop ==
  /\ [][(running /\ ~running' /\ pc' = "ui") => ~cap_open']_vars
  /\ [](Closing =>
          /\ ~cap_open
          /\ ~ENABLED ReadFrame
          /\ ~ENABLED HandStep
          /\ ~ENABLED (toggle_camera \/ clear_code \/ run_code \/ save_code
                        \/ change_camera \/ on_closing \/ LoopPaused)
          /\ ENABLED LoopBreak)
  /\ [][~running =>
          /\ UNCHANGED << debounce_vars, dispatch_vars, frame_vars, hands_left,
                          running, cap_open >>
          /\ pc' \in {pc, "done"}]_vars
  /\ [](pc = "done" => ~running /\ ~cap_open /\ ~ENABLED Next)
  /\ (Closing ~> pc = "done")

\* the window was closed after a gesture had fired, and the loop has ended
\* with the fire's effects in place
C12_Witness ==
  /\ pc = "done"
  /\ ~running
  /\ ~cap_open
  /\ hands_left = 0
  /\ Len(fires) = 1
  /\ clock > fires[1].time

\* ------------------------------------------------------------------------
\* Properties of the decision chain (recognize_gesture, 383-397)
\* ------------------------------------------------------------------------
\* the input reaches the if/elif chain
ChainReached(l) == Len(l) >= 21 /\ ~ReadsRaise(l)

\* the rules whose condition holds for the flags
Satisfied(ext) == { k \in 1..6 : rule_conditions(ext)[k] }

\* thumb, index and middle extended, ring and pinky folded
ThumbIndexMiddle == << TRUE, TRUE, TRUE, FALSE, FALSE >>

\* C13 as stated: no combination of the five flags satisfies the conditions
\* of two labelled rules.
C13_NoTies ==
  (Classified /\ ChainReached(landmarks)) =>
    Cardinality(Satisfied(extended_fingers(landmarks))) <= 1

\* C13 amended: every combination of the five flags satisfies at most one
\* rule and gets that rule's label (None when no rule holds), except thumb,
\* index and middle extended alone, which satisfies both the count of three
\* and the victory condition and gets three_fingers because that rule is
\* tested first.
C13_OnlyTieIsThreeWithVictory ==
  (Classified /\ ChainReached(landmarks)) =>
    LET ext == extended_fingers(landmarks)
        S == Satisfied(ext)
    IN  /\ ext # ThumbIndexMiddle =>
             /\ Cardinality(S) <= 1
             /\ \A k \in S : gesture = rule_labels[k]
             /\ S = {} => gesture = None
        /\ ext = ThumbIndexMiddle =>
             /\ S = {3, 5}
             /\ gesture = "three_fingers"

\* C13 witness: a hand of 21 numeric points with thumb, index and middle
\* extended has been classified as three_fingers
C13_Witness ==
  /\ Classified /\ WellFormed(landmarks)
  /\ extended_fingers(landmarks) = ThumbIndexMiddle
  /\ rule_conditions(extended_fingers(landmarks))[3]
  /\ rule_conditions(extended_fingers(landmarks))[5]
  /\ gesture = "three_fingers"

\* ------------------------------------------------------------------------
\* Properties of the paused loop (toggle_camera, run 500-503)
\* ------------------------------------------------------------------------
\* this step processes the first hand since the camera was resumed, and the
\* hand shows the label detected last
FirstHandAfterResume ==
  /\ since_resume = "resumed"
  /\ since_resume' = "first_hand"
  /\ gesture' # None
  /\ gesture' = last_detected_gesture

====
